---- MODULE Spec2Model ----
(***************************************************************************)
(* A model of the peer-to-peer chat node of src/node.py (PureP2PNetwork).  *)
(*                                                                         *)
(* One node is modelled: its three in-memory maps, its data file, the      *)
(* accept loop (tcp_server), one thread per accepted connection            *)
(* (handle_connection / process_incoming_message) and the main thread's    *)
(* command loop (run, add_friend, chat_with_friend).  A thread's step is   *)
(* one access to the shared state together with the thread-local code     *)
(* that precedes it; steps of different threads interleave freely.         *)
(***************************************************************************)
EXTENDS Integers, Sequences, FiniteSets, TLC

(***************************************************************************)
(* Bounds of the model.                                                    *)
(***************************************************************************)
\* inbound connections accepted by one process
MaxConns == 2
\* commands and chat lines the user types to the main thread in one run
MaxLines == 2

(***************************************************************************)
(* Values.                                                                 *)
(***************************************************************************)
\* self.port, and the port search_and_add falls back to
DefaultPort == 55888

\* self.username, as setup_username stored it (3..20 characters)
Me == "carol"

Peers == {"alice", "bob"}

Contents == {"hi", "yo"}

\* (ip, port) pairs a peer can claim or the user can type
Endpoints == {<<"10.0.0.5", DefaultPort>>, <<"10.0.0.6", 55889>>}

\* what datetime.now().strftime("%H:%M:%S") can return
Times == {"12:00:00"}

\* Python's None, where a string is expected
None == "None"

\* an empty dict
EmptyMap == << >>

\* d[k] = v on a dict
Put(m, k, v) == [x \in (DOMAIN m) \cup {k} |-> IF x = k THEN v ELSE m[x]]

(***************************************************************************)
(* The wire: what recv(4096) can hand to handle_connection.  A payload is  *)
(* the bytes read; wire says what they are, the other fields are the keys  *)
(* of the JSON object they spell.                                          *)
(***************************************************************************)
ChatPayloads ==
    {[wire |-> "object", type |-> "chat_message", from_user |-> u, content |-> c] :
        u \in Peers, c \in Contents}

RequestPayloads ==
    {[wire |-> "object", type |-> "friend_request", from_user |-> u,
      from_ip |-> e[1], from_port |-> e[2]] : u \in Peers, e \in Endpoints}

ReplyPayloads ==
    {[wire |-> "object", type |-> t, from_user |-> u] :
        t \in {"friend_accept", "friend_reject"}, u \in Peers}

\* a failed recv, an empty read, bytes that are no JSON, JSON that is no
\* object, and objects that lack a key their type needs
MalformedPayloads ==
    {[wire |-> "reset"], [wire |-> "empty"], [wire |-> "garbage"], [wire |-> "array"],
     [wire |-> "object", type |-> "chat_message", from_user |-> "alice"],
     [wire |-> "object", type |-> "friend_request", from_user |-> "alice",
      from_ip |-> "10.0.0.5"],
     [wire |-> "object", type |-> "friend_accept"]}

\* objects no branch of process_incoming_message matches
UntypedPayloads == {[wire |-> "object", type |-> "ping"], [wire |-> "object"]}

Payloads ==
    ChatPayloads \cup RequestPayloads \cup ReplyPayloads \cup MalformedPayloads
        \cup UntypedPayloads

\* client_socket.recv(4096).decode() returns
RecvOk(data) == data.wire # "reset"

\* json.loads(data) returns
JsonDecodable(data) == data.wire \in {"object", "array"}

\* json.loads(data): the dict the bytes spell
JsonLoads(data) == [k \in (DOMAIN data) \ {"wire"} |-> data[k]]

\* json.dumps(message).encode()
JsonDumps(message) ==
    [k \in (DOMAIN message) \cup {"wire"} |-> IF k = "wire" THEN "object" ELSE message[k]]

\* message.get('type')
MsgType(message) == IF "type" \in DOMAIN message THEN message.type ELSE None

\* the message[...] lookups of the branch for msg_type
KeysRead(msg_type) ==
    CASE msg_type = "friend_request" -> {"from_user", "from_ip", "from_port"}
      [] msg_type = "friend_accept"  -> {"from_user"}
      [] msg_type = "friend_reject"  -> {"from_user"}
      [] msg_type = "chat_message"   -> {"from_user", "content"}
      [] OTHER                       -> {}

\* how far handle_connection gets before its first access to shared state:
\* "drop" (nothing read, or an exception swallowed by except: pass),
\* "ignore" (no branch matches) or the branch taken
Dispatch(data) ==
    IF ~RecvOk(data) \/ data.wire = "empty" \/ ~JsonDecodable(data) THEN "drop"
    ELSE IF data.wire # "object" THEN "drop"
    ELSE LET message == JsonLoads(data)
             msg_type == MsgType(message)
         IN  IF ~(KeysRead(msg_type) \subseteq DOMAIN message) THEN "drop"
             ELSE IF KeysRead(msg_type) = {} THEN "ignore"
             ELSE msg_type

(***************************************************************************)
(* The console.  input() hands a thread the line the user typed;           *)
(* .lower().strip() and .strip() are tabulated over the lines modelled.    *)
(***************************************************************************)
AnswerLines == {"y", " Y ", "n", "yes", ""}

Strip(s) ==
    CASE s = " Y "     -> "Y"
      [] s = " hi "    -> "hi"
      [] s = "chat "   -> "chat"
      [] OTHER         -> s

Lower(s) ==
    CASE s = "Y"    -> "y"
      [] s = " Y "  -> " y "
      [] s = "EXIT" -> "exit"
      [] OTHER      -> s

(***************************************************************************)
(* The data file.                                                          *)
(***************************************************************************)
NoFile == [fmt |-> "absent"]

\* a file object with nothing in its buffer
NoBuffer == [fmt |-> "none"]

\* a file opened with 'wb' and not written yet, or written in part
Truncated == [fmt |-> "truncated"]

\* the (key, value) pairs of a dict, as pickle writes them
Items(m) == {<<k, m[k]>> : k \in DOMAIN m}

\* the dict a pickled list of pairs is read back as
FromItems(items) ==
    [k \in {p[1] : p \in items} |-> (CHOOSE p \in items : p[1] = k)[2]]

\* pickle.dump(data, f) of save_data's data dict
PickleDump(fr, cv, rq) ==
    [fmt |-> "pickle", friends |-> Items(fr), conversations |-> Items(cv),
     friend_requests |-> Items(rq)]

\* data.get(key, {}) on the unpickled dict
PickleGet(file, key) == IF key \in DOMAIN file THEN FromItems(file[key]) ELSE EmptyMap

\* os.path.exists and pickle.load both succeed
Loadable(file) == file.fmt = "pickle"

\* load_data: the three maps after it, from the maps before it
\* LoadData without the line that reads friend_requests
LoadDataSkipsRequests(file, fr, cv, rq) ==
    IF Loadable(file)
    THEN <<PickleGet(file, "friends"), PickleGet(file, "conversations"), rq>>
    ELSE <<fr, cv, rq>>

LoadData(file, fr, cv, rq) ==
    IF Loadable(file)
    THEN <<PickleGet(file, "friends"), PickleGet(file, "conversations"),
           PickleGet(file, "friend_requests")>>
    ELSE <<fr, cv, rq>>

(***************************************************************************)
(* The state.                                                              *)
(***************************************************************************)
VARIABLES
    friends,          \* self.friends: username -> {ip, port, connected}
    conversations,    \* self.conversations: username -> list of messages
    friend_requests,  \* self.friend_requests: username -> (ip, port)
    current_chat,     \* self.current_chat
    running,          \* self.running
    disk,             \* the content of p2p_data.pkl
    lpc,              \* where the tcp_server thread is
    conn,             \* the handle_connection threads, by connection
    main,             \* the main thread: run and what it calls
    lines,            \* how many commands and chat lines the main thread has read
    boots,            \* how often the program was started again
    call              \* a call of send_direct_message, statement by statement

vars ==
    <<friends, conversations, friend_requests, current_chat, running, disk, lpc,
      conn, main, lines, boots, call>>

shared == <<friends, conversations, friend_requests>>

Conns == 1..MaxConns

\* a connection nobody made yet.  pc, data, time and response are the thread's
\* position and locals; sent and out are what it has sent and printed; saved
\* is how its save_data ended ("-" before that); prior is a history field: the
\* conversation with from_user as the thread found it (empty if there was none)
Unborn == [pc |-> "unborn", data |-> [wire |-> "empty"], time |-> None,
           response |-> None, prior |-> << >>, saved |-> "-", sent |-> << >>,
           out |-> << >>, buf |-> NoBuffer]

\* the main thread at the p2p> prompt.  op is the operation the command
\* called, ret what it returned ("-" while it has not); the other fields are
\* as in Unborn
AtPrompt == [pc |-> "prompt", op |-> None, username |-> None, addr |-> <<None, 0>>,
             friend_info |-> <<None, 0>>, message |-> None, prior |-> << >>,
             saved |-> "-", sent |-> << >>, out |-> << >>, ret |-> "-",
             buf |-> NoBuffer]

\* __init__: empty maps, then load_data; setup_username and start_network
StartState(file) ==
    LET loaded == LoadData(file, EmptyMap, EmptyMap, EmptyMap)
    IN  /\ friends = loaded[1]
        /\ conversations = loaded[2]
        /\ friend_requests = loaded[3]
        /\ current_chat = None
        /\ running = TRUE
        /\ lpc = "select"
        /\ conn = [h \in Conns |-> Unborn]
        /\ main = AtPrompt

\* a data file an earlier run left: one friend, one message, one request
SavedFile ==
    PickleDump(
        [u \in {"alice"} |-> [ip |-> "10.0.0.5", port |-> DefaultPort, connected |-> TRUE]],
        [u \in {"alice"} |->
            <<[time |-> "12:00:00", from |-> "alice", content |-> "hi",
               direction |-> "incoming"]>>],
        [u \in {"bob"} |-> <<"10.0.0.5", 55889>>])

\* what the program can find on disk when it is first started
InitFiles == {NoFile, SavedFile}

\* sock.settimeout(5): the seconds a connect or a send may wait
SendTimeout == 5

\* no call of send_direct_message is in progress
SendIdle ==
    [pc |-> "idle", ip |-> None, port |-> 0, message |-> [type |-> None],
     opened |-> 0, written |-> << >>, waited |-> 0, ret |-> "-", raised |-> FALSE]

Init ==
    /\ disk \in InitFiles
    /\ lines = 0
    /\ boots = 0
    /\ call = SendIdle
    /\ StartState(disk)

\* the process lives until run returns; its daemon threads die with it.  The
\* model follows one run of the program and the start of the next.
Alive == main.pc # "exited" /\ boots = 0

(***************************************************************************)
(* send_direct_message: one connection, one message.  Whether the peer     *)
(* can be reached is the network's choice; the attempt is recorded with    *)
(* the thread that made it.                                                *)
(***************************************************************************)
Attempt(ip, port, message, ok) ==
    [ip |-> ip, port |-> port, data |-> JsonDumps(message), ok |-> ok]

(***************************************************************************)
(* send_direct_message statement by statement.  In the threads' actions a  *)
(* call is one step whose 'ok' is the value returned here; these actions   *)
(* follow one call through its try block.  What the network does to a      *)
(* socket call is an input: it returns, it raises at once, or it raises    *)
(* socket.timeout after SendTimeout seconds.                               *)
(***************************************************************************)
\* what a blocking socket call can do
SocketOutcomes == {"ok", "error", "timeout"}

\* the other variables, which a call of send_direct_message does not touch
SendFrame ==
    UNCHANGED <<friends, conversations, friend_requests, current_chat, running,
                disk, lpc, conn, main, lines, boots>>

\* a caller enters send_direct_message(ip, port, message)
SendDirectMessage(ip, port, message) ==
    /\ call.pc \in {"idle", "returned"}
    /\ call' = [SendIdle EXCEPT !.pc = "socket", !.ip = ip, !.port = port,
                                !.message = message]
    /\ SendFrame

\* sock = socket.socket(...); sock.settimeout(5)
SendSocket(ok) ==
    /\ call.pc = "socket"
    /\ call' = [call EXCEPT !.pc = IF ok THEN "connect" ELSE "except"]
    /\ SendFrame

\* sock.connect((ip, port)): connected, refused or unreachable, or timed out
SendConnect(outcome) ==
    /\ call.pc = "connect"
    /\ call' = [call EXCEPT
                  !.pc = IF outcome = "ok" THEN "send" ELSE "except",
                  !.opened = IF outcome = "ok" THEN @ + 1 ELSE @,
                  !.waited = IF outcome = "timeout" THEN @ + SendTimeout ELSE @]
    /\ SendFrame

\* sock.send(json.dumps(message).encode()): written, failed, or timed out
SendWrite(outcome) ==
    /\ call.pc = "send"
    /\ call' = [call EXCEPT
                  !.pc = IF outcome = "ok" THEN "close" ELSE "except",
                  !.written = IF outcome = "ok"
                              THEN Append(@, JsonDumps(call.message)) ELSE @,
                  !.waited = IF outcome = "timeout" THEN @ + SendTimeout ELSE @]
    /\ SendFrame

\* sock.close(); return True
SendClose(ok) ==
    /\ call.pc = "close"
    /\ call' = [call EXCEPT !.pc = IF ok THEN "returned" ELSE "except",
                            !.ret = IF ok THEN "True" ELSE @]
    /\ SendFrame

\* SendExcept with 'raise' in place of 'return False'
SendExceptRaises ==
    /\ call.pc = "except"
    /\ call' = [call EXCEPT !.pc = "returned", !.raised = TRUE]
    /\ SendFrame

\* except: return False
SendExcept ==
    /\ call.pc = "except"
    /\ call' = [call EXCEPT !.pc = "returned", !.ret = "False"]
    /\ SendFrame

\* the statements of one call, from its first to its return
SendRun ==
    \/ \E ok \in BOOLEAN : SendSocket(ok)
    \/ \E outcome \in SocketOutcomes : SendConnect(outcome)
    \/ \E outcome \in SocketOutcomes : SendWrite(outcome)
    \/ \E ok \in BOOLEAN : SendClose(ok)
    \/ SendExcept

(***************************************************************************)
(* save_data, in three steps: open(data_file, 'wb') truncates the file;     *)
(* pickle.dump serializes the three maps, as they are at that moment, into *)
(* the buffer of the file object; leaving the 'with' block flushes the     *)
(* buffer to the file, which from then on reads back as that buffer.       *)
(* Opening and pickling can fail; except: pass swallows the error.         *)
(***************************************************************************)
SaveOpened(ok) == IF ok THEN Truncated ELSE disk

SaveDumped == PickleDump(friends, conversations, friend_requests)

(***************************************************************************)
(* tcp_server.  The thread waits in select; a step of it is one pass of    *)
(* the loop body followed by the test of self.running that decides         *)
(* whether there is a next pass.  A select that times out while running    *)
(* is true changes nothing.                                                *)
(***************************************************************************)
\* select times out or raises, and self.running is found false
ListenerExit ==
    /\ Alive
    /\ lpc = "select"
    /\ ~running
    /\ lpc' = "exited"
    /\ UNCHANGED <<friends, conversations, friend_requests, current_chat, running,
                   disk, conn, main, lines, boots, call>>

\* ListenerAccept that takes a connection only when every handler thread
\* started before has returned
ListenerAcceptJoins(h, data) ==
    /\ Alive
    /\ lpc = "select"
    /\ conn[h].pc = "unborn"
    /\ \A g \in Conns : g < h => conn[g].pc \in {"done", "ended"}
    /\ conn' = [conn EXCEPT ![h] = [Unborn EXCEPT !.pc = "recv", !.data = data]]
    /\ lpc' = IF running THEN "select" ELSE "exited"
    /\ UNCHANGED <<friends, conversations, friend_requests, current_chat, running,
                   disk, main, lines, boots, call>>

\* accept, and a new thread for handle_connection
ListenerAccept(h, data) ==
    /\ Alive
    /\ lpc = "select"
    /\ conn[h].pc = "unborn"
    /\ \A g \in Conns : g < h => conn[g].pc # "unborn"
    /\ conn' = [conn EXCEPT ![h] = [Unborn EXCEPT !.pc = "recv", !.data = data]]
    /\ lpc' = IF running THEN "select" ELSE "exited"
    /\ UNCHANGED <<friends, conversations, friend_requests, current_chat, running,
                   disk, main, lines, boots, call>>

(***************************************************************************)
(* handle_connection and process_incoming_message, for connection h.       *)
(***************************************************************************)
Message(h) == JsonLoads(conn[h].data)

HandlerAt(h, pcs) == Alive /\ conn[h].pc \in pcs

\* HandlerDrop with a line printed in the except branch
HandlerDropPrints(h) ==
    /\ HandlerAt(h, {"recv"})
    /\ Dispatch(conn[h].data) \in {"drop", "ignore"}
    /\ conn' = [conn EXCEPT ![h].pc = "done", ![h].out = <<"error", "p2p>">>]
    /\ UNCHANGED <<friends, conversations, friend_requests, current_chat, running,
                   disk, lpc, main, lines, boots, call>>

\* nothing read, an exception before any effect, or no branch matching:
\* finally closes the socket
HandlerDrop(h) ==
    /\ HandlerAt(h, {"recv"})
    /\ Dispatch(conn[h].data) \in {"drop", "ignore"}
    /\ conn' = [conn EXCEPT ![h].pc = "done"]
    /\ UNCHANGED <<friends, conversations, friend_requests, current_chat, running,
                   disk, lpc, main, lines, boots, call>>

\* HandlerReply that takes the answered request out of friend_requests
HandlerReplyConsumes(h) ==
    /\ HandlerAt(h, {"recv"})
    /\ Dispatch(conn[h].data) \in {"friend_accept", "friend_reject"}
    /\ friend_requests' =
          [u \in DOMAIN friend_requests \ {Message(h).from_user} |-> friend_requests[u]]
    /\ conn' = [conn EXCEPT ![h].pc = "done",
                            ![h].out = <<Dispatch(conn[h].data), "p2p>">>]
    /\ UNCHANGED <<friends, conversations, current_chat, running,
                   disk, lpc, main, lines, boots, call>>

\* friend_accept and friend_reject: two lines printed
HandlerReply(h) ==
    /\ HandlerAt(h, {"recv"})
    /\ Dispatch(conn[h].data) \in {"friend_accept", "friend_reject"}
    /\ conn' = [conn EXCEPT ![h].pc = "done",
                            ![h].out = <<Dispatch(conn[h].data), "p2p>">>]
    /\ UNCHANGED <<friends, conversations, friend_requests, current_chat, running,
                   disk, lpc, main, lines, boots, call>>

\* friend_request: the request is announced and the thread waits in input()
HandlerRequest(h) ==
    /\ HandlerAt(h, {"recv"})
    /\ Dispatch(conn[h].data) = "friend_request"
    /\ conn' = [conn EXCEPT ![h].pc = "prompt", ![h].out = <<"friend_request">>]
    /\ UNCHANGED <<friends, conversations, friend_requests, current_chat, running,
                   disk, lpc, main, lines, boots, call>>

\* AcceptedRecord with the default port in place of from_port
AcceptedRecordDefaultPort(message) ==
    [ip |-> message.from_ip, port |-> DefaultPort, connected |-> TRUE]

\* the FriendRecord the accept branch stores
AcceptedRecord(message) ==
    [ip |-> message.from_ip, port |-> message.from_port, connected |-> TRUE]

\* input() returns line and the answer is 'y': self.friends[from_user] = {...}
HandlerAccept(h, line) ==
    /\ HandlerAt(h, {"prompt"})
    /\ Strip(Lower(line)) = "y"
    /\ friends' = Put(friends, Message(h).from_user, AcceptedRecord(Message(h)))
    /\ conn' = [conn EXCEPT ![h].pc = "fr_open", ![h].response = Strip(Lower(line))]
    /\ UNCHANGED <<conversations, friend_requests, current_chat, running, disk, lpc,
                   main, lines, boots, call>>

\* the friend_accept reply, after save_data
HandlerSendAccept(h, ok) ==
    /\ HandlerAt(h, {"fr_send"})
    /\ conn' = [conn EXCEPT
                  ![h].pc = "done",
                  ![h].sent = Append(@, Attempt(Message(h).from_ip, Message(h).from_port,
                                                [type |-> "friend_accept", from_user |-> Me],
                                                ok)),
                  ![h].out = @ \o <<"now_friend", "p2p>">>]
    /\ UNCHANGED <<friends, conversations, friend_requests, current_chat, running,
                   disk, lpc, main, lines, boots, call>>

\* HandlerReject that also files the requester under friend_requests
HandlerRejectRemembers(h, line, ok) ==
    /\ HandlerAt(h, {"prompt"})
    /\ Strip(Lower(line)) # "y"
    /\ friend_requests' = Put(friend_requests, Message(h).from_user,
                              <<Message(h).from_ip, Message(h).from_port>>)
    /\ conn' = [conn EXCEPT
                  ![h].pc = "done",
                  ![h].response = Strip(Lower(line)),
                  ![h].sent = Append(@, Attempt(Message(h).from_ip, Message(h).from_port,
                                                [type |-> "friend_reject", from_user |-> Me],
                                                ok)),
                  ![h].out = @ \o <<"rejected", "p2p>">>]
    /\ UNCHANGED <<friends, conversations, current_chat, running, disk, lpc, main,
                   lines, boots, call>>

\* input() returns line and the answer is anything else: the friend_reject reply
HandlerReject(h, line, ok) ==
    /\ HandlerAt(h, {"prompt"})
    /\ Strip(Lower(line)) # "y"
    /\ conn' = [conn EXCEPT
                  ![h].pc = "done",
                  ![h].response = Strip(Lower(line)),
                  ![h].sent = Append(@, Attempt(Message(h).from_ip, Message(h).from_port,
                                                [type |-> "friend_reject", from_user |-> Me],
                                                ok)),
                  ![h].out = @ \o <<"rejected", "p2p>">>]
    /\ UNCHANGED <<friends, conversations, friend_requests, current_chat, running,
                   disk, lpc, main, lines, boots, call>>

\* chat_message: the timestamp is taken and from_user is looked up
HandlerChat(h, t) ==
    /\ HandlerAt(h, {"recv"})
    /\ Dispatch(conn[h].data) = "chat_message"
    /\ conn' = [conn EXCEPT
                  ![h].time = t,
                  ![h].prior = IF Message(h).from_user \in DOMAIN conversations
                               THEN conversations[Message(h).from_user] ELSE << >>,
                  ![h].pc = IF Message(h).from_user \in DOMAIN conversations
                            THEN "cm_append" ELSE "cm_create"]
    /\ UNCHANGED <<friends, conversations, friend_requests, current_chat, running,
                   disk, lpc, main, lines, boots, call>>

\* HandlerCreate with self.conversations = {from_user: []} in its place
HandlerCreateRebinds(h) ==
    /\ HandlerAt(h, {"cm_create"})
    /\ conversations' = [u \in {Message(h).from_user} |-> << >>]
    /\ conn' = [conn EXCEPT ![h].pc = "cm_append"]
    /\ UNCHANGED <<friends, friend_requests, current_chat, running, disk, lpc, main,
                   lines, boots, call>>

\* self.conversations[from_user] = []
HandlerCreate(h) ==
    /\ HandlerAt(h, {"cm_create"})
    /\ conversations' = Put(conversations, Message(h).from_user, << >>)
    /\ conn' = [conn EXCEPT ![h].pc = "cm_append"]
    /\ UNCHANGED <<friends, friend_requests, current_chat, running, disk, lpc, main,
                   lines, boots, call>>

\* the Message the chat_message branch stores
Incoming(message, t) ==
    [time |-> t, from |-> message.from_user, content |-> message.content,
     direction |-> "incoming"]

\* HandlerAppend with self.conversations[from_user] = [{...}] in its place
HandlerAppendReplaces(h) ==
    /\ HandlerAt(h, {"cm_append"})
    /\ conversations' =
          [conversations EXCEPT
              ![Message(h).from_user] = <<Incoming(Message(h), conn[h].time)>>]
    /\ conn' = [conn EXCEPT ![h].pc = "cm_open"]
    /\ UNCHANGED <<friends, friend_requests, current_chat, running, disk, lpc, main,
                   lines, boots, call>>

\* self.conversations[from_user].append({...})
HandlerAppend(h) ==
    /\ HandlerAt(h, {"cm_append"})
    /\ conversations' =
          [conversations EXCEPT
              ![Message(h).from_user] = Append(@, Incoming(Message(h), conn[h].time))]
    /\ conn' = [conn EXCEPT ![h].pc = "cm_open"]
    /\ UNCHANGED <<friends, friend_requests, current_chat, running, disk, lpc, main,
                   lines, boots, call>>

\* save_data: open(self.data_file, 'wb')
HandlerSaveOpen(h, ok) ==
    /\ HandlerAt(h, {"fr_open", "cm_open"})
    /\ disk' = SaveOpened(ok)
    /\ conn' = [conn EXCEPT
                  ![h].pc = CASE ok /\ conn[h].pc = "fr_open"  -> "fr_dump"
                              [] ok /\ conn[h].pc = "cm_open"  -> "cm_dump"
                              [] ~ok /\ conn[h].pc = "fr_open" -> "fr_send"
                              [] OTHER                         -> "cm_notify",
                  ![h].saved = IF ok THEN @ ELSE "failed"]
    /\ UNCHANGED <<friends, conversations, friend_requests, current_chat, running,
                   lpc, main, lines, boots, call>>

\* save_data: pickle.dump(data, f)
HandlerSaveDump(h, ok) ==
    /\ HandlerAt(h, {"fr_dump", "cm_dump"})
    /\ conn' = [conn EXCEPT
                  ![h].pc = CASE ok /\ conn[h].pc = "fr_dump"  -> "fr_close"
                              [] ok /\ conn[h].pc = "cm_dump"  -> "cm_close"
                              [] ~ok /\ conn[h].pc = "fr_dump" -> "fr_send"
                              [] OTHER                         -> "cm_notify",
                  ![h].buf = IF ok THEN SaveDumped ELSE @,
                  ![h].saved = IF ok THEN @ ELSE "failed"]
    /\ UNCHANGED <<friends, conversations, friend_requests, current_chat, running,
                   disk, lpc, main, lines, boots, call>>

\* save_data: the 'with' block is left and the buffer reaches the file
HandlerSaveClose(h) ==
    /\ HandlerAt(h, {"fr_close", "cm_close"})
    /\ disk' = conn[h].buf
    /\ conn' = [conn EXCEPT
                  ![h].pc = IF conn[h].pc = "fr_close" THEN "fr_send" ELSE "cm_notify",
                  ![h].buf = NoBuffer,
                  ![h].saved = "ok"]
    /\ UNCHANGED <<friends, conversations, friend_requests, current_chat, running,
                   lpc, main, lines, boots, call>>

\* the alert, unless the chat with from_user is open; then the prompt
HandlerNotify(h) ==
    /\ HandlerAt(h, {"cm_notify"})
    /\ conn' = [conn EXCEPT
                  ![h].pc = "done",
                  ![h].out = IF current_chat # Message(h).from_user
                             THEN <<"chat_message", "p2p>">> ELSE <<"p2p>">>]
    /\ UNCHANGED <<friends, conversations, friend_requests, current_chat, running,
                   disk, lpc, main, lines, boots, call>>

\* handle_connection has returned and the thread ends: its locals are gone
HandlerEnd(h) ==
    /\ HandlerAt(h, {"done"})
    /\ conn' = [conn EXCEPT ![h] = [Unborn EXCEPT !.pc = "ended"]]
    /\ UNCHANGED <<friends, conversations, friend_requests, current_chat, running,
                   disk, lpc, main, lines, boots, call>>

(***************************************************************************)
(* The main thread: run, search_and_add, add_friend, chat_with_friend.     *)
(***************************************************************************)
MainAt(pcs) == Alive /\ main.pc \in pcs

\* lines typed at the p2p> prompt that change nothing: friends, help,
\* history <user>, and whatever is no command ("chat " is "chat" once stripped)
OtherCommands == {"friends", "help", "history alice", "chat ", "y"}

\* lines typed inside a chat
ChatLines == {"exit", "EXIT", "", " hi ", "yo"}

\* what the user can type at search_and_add's three prompts
IpInputs == {"", "10.0.0.5"}

PortInputs == {"", "55889", "x"}

NameInputs == {""} \cup Peers

\* int(port) returns
PortValid(raw) == raw \in {"", "55889"}

\* the port search_and_add passes on
ParsePort(raw) == IF raw = "" THEN DefaultPort ELSE 55889

\* get_local_ip: the address of the outbound interface, or the fallback
LocalIps == {"192.168.1.2", "127.0.0.1"}

\* 'exit': self.running = False, then save_data
MainExit ==
    /\ MainAt({"prompt"})
    /\ lines < MaxLines
    /\ lines' = lines + 1
    /\ running' = FALSE
    /\ main' = [AtPrompt EXCEPT !.pc = "exit_open", !.op = "exit"]
    /\ UNCHANGED <<friends, conversations, friend_requests, current_chat, disk, lpc,
                   conn, boots, call>>

\* a command that only prints
MainOther(line) ==
    /\ MainAt({"prompt"})
    /\ lines < MaxLines
    /\ lines' = lines + 1
    /\ main' = [AtPrompt EXCEPT !.pc = "return", !.op = Strip(line), !.out = <<"info">>]
    /\ UNCHANGED <<friends, conversations, friend_requests, current_chat, running,
                   disk, lpc, conn, boots, call>>

\* 'add' with a port that is no number (ValueError, printed by run) or with
\* no ip or no username: add_friend is not called
MainAddRefused(ip, port, username) ==
    /\ MainAt({"prompt"})
    /\ lines < MaxLines
    /\ lines' = lines + 1
    /\ ~PortValid(port) \/ ip = "" \/ username = ""
    /\ main' = [AtPrompt EXCEPT !.pc = "return", !.op = "add",
                                !.out = IF PortValid(port) THEN <<"required">>
                                        ELSE <<"error">>]
    /\ UNCHANGED <<friends, conversations, friend_requests, current_chat, running,
                   disk, lpc, conn, boots, call>>

\* the friend_request add_friend sends
FriendRequest(local_ip) ==
    [type |-> "friend_request", from_user |-> Me, from_ip |-> local_ip,
     from_port |-> DefaultPort]

\* MainAddSent that also makes the user a friend at once
MainAddSentBefriends(ip, port, username, local_ip) ==
    /\ MainAt({"prompt"})
    /\ lines < MaxLines
    /\ lines' = lines + 1
    /\ PortValid(port) /\ ip # "" /\ username # ""
    /\ friend_requests' = Put(friend_requests, username, <<ip, ParsePort(port)>>)
    /\ friends' = Put(friends, username,
                      [ip |-> ip, port |-> ParsePort(port), connected |-> TRUE])
    /\ main' = [AtPrompt EXCEPT
                  !.pc = "af_open", !.op = "add_friend", !.username = username,
                  !.addr = <<ip, ParsePort(port)>>,
                  !.sent = <<Attempt(ip, ParsePort(port), FriendRequest(local_ip), TRUE)>>,
                  !.out = <<"request_sent">>]
    /\ UNCHANGED <<conversations, current_chat, running, disk, lpc, conn,
                   boots, call>>

\* add_friend, the send succeeded: self.friend_requests[username] = (ip, port)
MainAddSent(ip, port, username, local_ip) ==
    /\ MainAt({"prompt"})
    /\ lines < MaxLines
    /\ lines' = lines + 1
    /\ PortValid(port) /\ ip # "" /\ username # ""
    /\ friend_requests' = Put(friend_requests, username, <<ip, ParsePort(port)>>)
    /\ main' = [AtPrompt EXCEPT
                  !.pc = "af_open", !.op = "add_friend", !.username = username,
                  !.addr = <<ip, ParsePort(port)>>,
                  !.sent = <<Attempt(ip, ParsePort(port), FriendRequest(local_ip), TRUE)>>,
                  !.out = <<"request_sent">>]
    /\ UNCHANGED <<friends, conversations, current_chat, running, disk, lpc, conn,
                   boots, call>>

\* MainAddFailed without the test of success before the request is stored
MainAddFailedStores(ip, port, username, local_ip) ==
    /\ MainAt({"prompt"})
    /\ lines < MaxLines
    /\ lines' = lines + 1
    /\ PortValid(port) /\ ip # "" /\ username # ""
    /\ friend_requests' = Put(friend_requests, username, <<ip, ParsePort(port)>>)
    /\ main' = [AtPrompt EXCEPT
                  !.pc = "return", !.op = "add_friend", !.username = username,
                  !.addr = <<ip, ParsePort(port)>>,
                  !.sent = <<Attempt(ip, ParsePort(port), FriendRequest(local_ip), FALSE)>>,
                  !.out = <<"no_connect">>, !.ret = None]
    /\ UNCHANGED <<friends, conversations, current_chat, running, disk, lpc, conn,
                   boots, call>>

\* add_friend, the send failed: a line is printed, None is returned
MainAddFailed(ip, port, username, local_ip) ==
    /\ MainAt({"prompt"})
    /\ lines < MaxLines
    /\ lines' = lines + 1
    /\ PortValid(port) /\ ip # "" /\ username # ""
    /\ main' = [AtPrompt EXCEPT
                  !.pc = "return", !.op = "add_friend", !.username = username,
                  !.addr = <<ip, ParsePort(port)>>,
                  !.sent = <<Attempt(ip, ParsePort(port), FriendRequest(local_ip), FALSE)>>,
                  !.out = <<"no_connect">>, !.ret = None]
    /\ UNCHANGED <<friends, conversations, friend_requests, current_chat, running,
                   disk, lpc, conn, boots, call>>

\* MainChatNotFriend with self.current_chat set before the test
MainChatNotFriendMarks(username) ==
    /\ MainAt({"prompt"})
    /\ lines < MaxLines
    /\ lines' = lines + 1
    /\ username \notin DOMAIN friends
    /\ current_chat' = username
    /\ main' = [AtPrompt EXCEPT !.pc = "return", !.op = "chat_with_friend",
                                !.username = username,
                                !.out = <<"not_friend">>, !.ret = None]
    /\ UNCHANGED <<friends, conversations, friend_requests, running, disk, lpc, conn,
                   boots, call>>

\* 'chat <username>' with no such friend: a line is printed, None is returned
MainChatNotFriend(username) ==
    /\ MainAt({"prompt"})
    /\ lines < MaxLines
    /\ lines' = lines + 1
    /\ username \notin DOMAIN friends
    /\ main' = [AtPrompt EXCEPT !.pc = "return", !.op = "chat_with_friend", !.username = username,
                                !.out = <<"not_friend">>, !.ret = None]
    /\ UNCHANGED <<friends, conversations, friend_requests, current_chat, running,
                   disk, lpc, conn, boots, call>>

\* 'chat <username>' with a friend: friend_info is taken, the chat is opened
MainChatOpen(username) ==
    /\ MainAt({"prompt"})
    /\ lines < MaxLines
    /\ lines' = lines + 1
    /\ username \in DOMAIN friends
    /\ current_chat' = username
    /\ main' = [AtPrompt EXCEPT
                  !.pc = "chat_return", !.op = "chat_with_friend", !.username = username,
                  !.friend_info = <<friends[username].ip, friends[username].port>>,
                  !.out = <<"history">>]
    /\ UNCHANGED <<friends, conversations, friend_requests, running, disk, lpc, conn,
                   boots, call>>

\* 'exit' typed in the chat
MainChatLeave(line) ==
    /\ MainAt({"chat"})
    /\ lines < MaxLines
    /\ lines' = lines + 1
    /\ Lower(Strip(line)) = "exit"
    /\ current_chat' = None
    /\ main' = [main EXCEPT !.pc = "return", !.message = Strip(line), !.sent = << >>,
                            !.out = <<"left">>, !.ret = None]
    /\ UNCHANGED <<friends, conversations, friend_requests, running, disk, lpc, conn,
                   boots, call>>

\* an empty line typed in the chat
MainChatEmpty(line) ==
    /\ MainAt({"chat"})
    /\ lines < MaxLines
    /\ lines' = lines + 1
    /\ Strip(line) = ""
    /\ main' = [main EXCEPT !.pc = "chat_return", !.message = "", !.sent = << >>, !.out = << >>]
    /\ UNCHANGED <<friends, conversations, friend_requests, current_chat, running,
                   disk, lpc, conn, boots, call>>

\* the chat_message chat_with_friend sends
ChatMessage(content) == [type |-> "chat_message", from_user |-> Me, content |-> content]

\* a message typed in the chat, the send succeeded: username is looked up
MainChatSent(line) ==
    /\ MainAt({"chat"})
    /\ lines < MaxLines
    /\ lines' = lines + 1
    /\ Strip(line) # "" /\ Lower(Strip(line)) # "exit"
    /\ main' = [main EXCEPT
                  !.pc = IF main.username \in DOMAIN conversations
                         THEN "cs_append" ELSE "cs_create",
                  !.message = Strip(line),
                  !.prior = IF main.username \in DOMAIN conversations
                            THEN conversations[main.username] ELSE << >>,
                  !.sent = <<Attempt(main.friend_info[1], main.friend_info[2],
                                     ChatMessage(Strip(line)), TRUE)>>,
                  !.out = << >>]
    /\ UNCHANGED <<friends, conversations, friend_requests, current_chat, running,
                   disk, lpc, conn, boots, call>>

\* MainChatFailed without the line that clears 'connected'
MainChatFailedKeeps(line) ==
    /\ MainAt({"chat"})
    /\ lines < MaxLines
    /\ lines' = lines + 1
    /\ Strip(line) # "" /\ Lower(Strip(line)) # "exit"
    /\ main' = [main EXCEPT
                  !.pc = "chat_return",
                  !.message = Strip(line),
                  !.sent = <<Attempt(main.friend_info[1], main.friend_info[2],
                                     ChatMessage(Strip(line)), FALSE)>>,
                  !.out = <<"failed">>]
    /\ UNCHANGED <<friends, conversations, friend_requests, current_chat, running,
                   disk, lpc, conn, boots, call>>

\* a message typed in the chat, the send failed:
\* self.friends[username]['connected'] = False
MainChatFailed(line) ==
    /\ MainAt({"chat"})
    /\ lines < MaxLines
    /\ lines' = lines + 1
    /\ Strip(line) # "" /\ Lower(Strip(line)) # "exit"
    /\ friends' = [friends EXCEPT ![main.username].connected = FALSE]
    /\ main' = [main EXCEPT
                  !.pc = "chat_return",
                  !.message = Strip(line),
                  !.sent = <<Attempt(main.friend_info[1], main.friend_info[2],
                                     ChatMessage(Strip(line)), FALSE)>>,
                  !.out = <<"failed">>]
    /\ UNCHANGED <<conversations, friend_requests, current_chat, running, disk, lpc,
                   conn, boots, call>>

\* self.conversations[username] = []
MainChatCreate ==
    /\ MainAt({"cs_create"})
    /\ conversations' = Put(conversations, main.username, << >>)
    /\ main' = [main EXCEPT !.pc = "cs_append"]
    /\ UNCHANGED <<friends, friend_requests, current_chat, running, disk, lpc, conn,
                   lines, boots, call>>

\* the Message chat_with_friend stores
Outgoing(content, t) ==
    [time |-> t, from |-> Me, content |-> content, direction |-> "outgoing"]

\* self.conversations[username].append({...})
MainChatAppend(t) ==
    /\ MainAt({"cs_append"})
    /\ conversations' =
          [conversations EXCEPT ![main.username] = Append(@, Outgoing(main.message, t))]
    /\ main' = [main EXCEPT !.pc = "cs_open"]
    /\ UNCHANGED <<friends, friend_requests, current_chat, running, disk, lpc, conn,
                   lines, boots, call>>

\* where the main thread goes on after save_data
AfterSave(pc) ==
    CASE pc \in {"exit_open", "exit_dump", "exit_close"} -> "exited"
      [] pc \in {"af_open", "af_dump", "af_close"}       -> "return"
      [] OTHER                                           -> "chat_return"

\* what the main thread has printed by then
SavedLine(pc) ==
    CASE pc \in {"exit_open", "exit_dump", "exit_close"} -> <<"goodbye">>
      [] pc \in {"af_open", "af_dump", "af_close"}       -> << >>
      [] OTHER                                           -> <<"you">>

\* save_data: open(self.data_file, 'wb')
MainSaveOpen(ok) ==
    /\ MainAt({"exit_open", "af_open", "cs_open"})
    /\ disk' = SaveOpened(ok)
    /\ main' = IF ok
               THEN [main EXCEPT !.pc = CASE main.pc = "exit_open" -> "exit_dump"
                                           [] main.pc = "af_open"   -> "af_dump"
                                           [] OTHER                 -> "cs_dump"]
               ELSE [main EXCEPT !.pc = AfterSave(main.pc),
                                 !.saved = "failed",
                                 !.out = @ \o SavedLine(main.pc),
                                 !.ret = IF main.pc = "af_open" THEN None ELSE @]
    /\ UNCHANGED <<friends, conversations, friend_requests, current_chat, running,
                   lpc, conn, lines, boots, call>>

\* save_data: pickle.dump(data, f)
MainSaveDump(ok) ==
    /\ MainAt({"exit_dump", "af_dump", "cs_dump"})
    /\ main' = IF ok
               THEN [main EXCEPT !.pc = CASE main.pc = "exit_dump" -> "exit_close"
                                           [] main.pc = "af_dump"   -> "af_close"
                                           [] OTHER                 -> "cs_close",
                                 !.buf = SaveDumped]
               ELSE [main EXCEPT !.pc = AfterSave(main.pc),
                                 !.saved = "failed",
                                 !.out = @ \o SavedLine(main.pc),
                                 !.ret = IF main.pc = "af_dump" THEN None ELSE @]
    /\ UNCHANGED <<friends, conversations, friend_requests, current_chat, running,
                   disk, lpc, conn, lines, boots, call>>

\* save_data: the 'with' block is left and the buffer reaches the file
MainSaveClose ==
    /\ MainAt({"exit_close", "af_close", "cs_close"})
    /\ disk' = main.buf
    /\ main' = [main EXCEPT !.pc = AfterSave(main.pc),
                            !.buf = NoBuffer,
                            !.saved = "ok",
                            !.out = @ \o SavedLine(main.pc),
                            !.ret = IF main.pc = "af_close" THEN None ELSE @]
    /\ UNCHANGED <<friends, conversations, friend_requests, current_chat, running,
                   lpc, conn, lines, boots, call>>

\* the command is done and run loops to the next input("\np2p> "), or the
\* chat line is done and chat_with_friend loops to the next input()
MainLoop ==
    /\ MainAt({"return", "chat_return"})
    /\ main' = IF main.pc = "return" THEN AtPrompt
               ELSE [main EXCEPT !.pc = "chat", !.message = None, !.prior = << >>,
                                 !.saved = "-", !.sent = << >>, !.out = << >>]
    /\ UNCHANGED <<friends, conversations, friend_requests, current_chat, running,
                   disk, lpc, conn, lines, boots, call>>

\* the program is started again: __init__ reads the data file
Restart ==
    /\ main.pc = "exited"
    /\ boots = 0
    /\ boots' = 1
    /\ lines' = 0
    /\ friends' = LoadData(disk, EmptyMap, EmptyMap, EmptyMap)[1]
    /\ conversations' = LoadData(disk, EmptyMap, EmptyMap, EmptyMap)[2]
    /\ friend_requests' = LoadData(disk, EmptyMap, EmptyMap, EmptyMap)[3]
    /\ current_chat' = None
    /\ running' = TRUE
    /\ lpc' = "select"
    /\ conn' = [h \in Conns |-> Unborn]
    /\ main' = AtPrompt
    /\ call' = SendIdle
    /\ UNCHANGED disk

(***************************************************************************)
(* The next-state relations.  What a step draws from outside the program   *)
(* (the bytes of a connection, the lines typed, whether a peer is reached, *)
(* whether the data file can be written, the clock) is a parameter; U      *)
(* names the sets the parameters range over.                               *)
(***************************************************************************)
Main(U) ==
    \/ MainExit
    \/ \E line \in U.commands : MainOther(line)
    \/ \E ip \in U.ips, port \in U.ports, username \in U.names :
          MainAddRefused(ip, port, username)
    \/ \E ip \in U.ips, port \in U.ports, username \in U.names,
          local_ip \in U.local_ips : MainAddSent(ip, port, username, local_ip)
    \/ \E ip \in U.ips, port \in U.ports, username \in U.names,
          local_ip \in U.local_ips : MainAddFailed(ip, port, username, local_ip)
    \/ \E username \in Peers : MainChatNotFriend(username)
    \/ \E username \in Peers : MainChatOpen(username)
    \/ \E line \in U.chat_lines : MainChatLeave(line)
    \/ \E line \in U.chat_lines : MainChatEmpty(line)
    \/ \E line \in U.chat_lines : MainChatSent(line)
    \/ \E line \in U.chat_lines : MainChatFailed(line)
    \/ MainChatCreate
    \/ \E t \in Times : MainChatAppend(t)
    \/ \E ok \in U.disk_ok : MainSaveOpen(ok)
    \/ \E ok \in U.disk_ok : MainSaveDump(ok)
    \/ MainSaveClose
    \/ MainLoop

Handler(h, U) ==
    \/ HandlerDrop(h)
    \/ HandlerReply(h)
    \/ HandlerRequest(h)
    \/ \E line \in U.answers : HandlerAccept(h, line)
    \/ \E ok \in BOOLEAN : HandlerSendAccept(h, ok)
    \/ \E line \in U.answers, ok \in BOOLEAN : HandlerReject(h, line, ok)
    \/ \E t \in Times : HandlerChat(h, t)
    \/ HandlerCreate(h)
    \/ HandlerAppend(h)
    \/ \E ok \in U.disk_ok : HandlerSaveOpen(h, ok)
    \/ \E ok \in U.disk_ok : HandlerSaveDump(h, ok)
    \/ HandlerSaveClose(h)
    \/ HandlerNotify(h)

Listener(U) ==
    \/ ListenerExit
    \/ \E h \in Conns, data \in U.payloads : ListenerAccept(h, data)

\* every input modelled
AllInputs ==
    [payloads |-> Payloads, answers |-> AnswerLines, commands |-> OtherCommands,
     ips |-> IpInputs, ports |-> PortInputs, names |-> NameInputs,
     chat_lines |-> ChatLines, local_ips |-> LocalIps, disk_ok |-> BOOLEAN]

\* one input of each kind, and a data file that can always be written
FewInputs ==
    [payloads |->
        {[wire |-> "object", type |-> "chat_message", from_user |-> "alice",
          content |-> "hi"],
         [wire |-> "object", type |-> "chat_message", from_user |-> "bob",
          content |-> "yo"],
         [wire |-> "object", type |-> "friend_request", from_user |-> "alice",
          from_ip |-> "10.0.0.6", from_port |-> 55889],
         [wire |-> "object", type |-> "friend_accept", from_user |-> "bob"],
         [wire |-> "garbage"]},
     answers |-> {"y", "n"}, commands |-> {"friends"}, ips |-> {"10.0.0.5"},
     ports |-> {"", "x"}, names |-> {"bob"}, chat_lines |-> {"exit", "", "yo"},
     local_ips |-> {"192.168.1.2"}, disk_ok |-> {TRUE}]

\* a thread that has begun an operation and not finished it
HandlerBusy(h) == conn[h].pc \notin {"unborn", "ended"}

MainBusy == main.pc \notin {"prompt", "chat", "exited"}

\* threads interleave freely; what a thread held when it ended stays in conn
Next ==
    \/ Listener(FewInputs)
    \/ \E h \in Conns : Handler(h, FewInputs)
    \/ Main(FewInputs)
    \/ Restart

Spec == Init /\ [][Next]_vars

\* the steps a handler thread takes by itself: all but the two that need a
\* line from the user
HandlerRun(h) ==
    \/ HandlerDrop(h)
    \/ HandlerReply(h)
    \/ HandlerRequest(h)
    \/ \E ok \in BOOLEAN : HandlerSendAccept(h, ok)
    \/ \E t \in Times : HandlerChat(h, t)
    \/ HandlerCreate(h)
    \/ HandlerAppend(h)
    \/ \E ok \in FewInputs.disk_ok : HandlerSaveOpen(h, ok)
    \/ \E ok \in FewInputs.disk_ok : HandlerSaveDump(h, ok)
    \/ HandlerSaveClose(h)
    \/ HandlerNotify(h)

\* the listener and the handlers interleave freely; of the main thread only
\* the 'exit' command, which ends the process, is followed
FairNext ==
    \/ Listener(FewInputs)
    \/ \E h \in Conns : Handler(h, FewInputs)
    \/ MainExit
    \/ \E ok \in FewInputs.disk_ok : MainSaveOpen(ok)
    \/ \E ok \in FewInputs.disk_ok : MainSaveDump(ok)
    \/ MainSaveClose
    \/ Restart

\* every handler thread is scheduled: while the process lives, a handler
\* that can take a step by itself takes one.  Nothing makes the user answer
\* a prompt or type 'exit'.
FairSpec == Init /\ [][FairNext]_vars /\ \A h \in Conns : WF_vars(HandlerRun(h))

\* one operation at a time: a thread begins or continues an operation only
\* while no other thread is inside one; the listener's leaving its loop
\* touches nothing the operations use and may fall inside the last save
Serial(U) ==
    \/ /\ ~MainBusy
       /\ \A h \in Conns : ~HandlerBusy(h)
       /\ \E h \in Conns, data \in U.payloads : ListenerAccept(h, data)
    \/ \E h \in Conns :
          /\ ~MainBusy
          /\ \A g \in Conns \ {h} : ~HandlerBusy(g)
          /\ Handler(h, U) \/ HandlerEnd(h)
    \/ /\ \A h \in Conns : ~HandlerBusy(h)
       /\ Main(U)
    \/ /\ \A h \in Conns : ~HandlerBusy(h)
       /\ ListenerExit
    \/ /\ \A h \in Conns : ~HandlerBusy(h)
       /\ Restart

SerialNext == Serial(AllInputs)

SerialSpec == Init /\ [][SerialNext]_vars

\* every input modelled, and a data file that can always be written
SureInputs == [AllInputs EXCEPT !.disk_ok = {TRUE}]

\* one operation at a time and no save that fails
SureNext == Serial(SureInputs)

SureSpec == Init /\ [][SureNext]_vars

\* the messages the program hands to send_direct_message
SentMessages ==
    {FriendRequest(local_ip) : local_ip \in LocalIps}
        \cup {[type |-> t, from_user |-> Me] : t \in {"friend_accept", "friend_reject"}}
        \cup {ChatMessage(content) : content \in Contents}

\* calls of send_direct_message alone, one after the other
SendNext ==
    \/ \E e \in Endpoints, message \in SentMessages :
          SendDirectMessage(e[1], e[2], message)
    \/ SendRun

\* a thread inside send_direct_message keeps running: the interpreter
\* schedules it, and no socket call outlasts its timeout
SendSpec == Init /\ [][SendNext]_vars /\ WF_vars(SendRun)

(***************************************************************************)
(* The properties.                                                         *)
(***************************************************************************)
\* the three maps a data file is read back as
Reloaded(file) == LoadData(file, EmptyMap, EmptyMap, EmptyMap)

\* connection h carried a well-formed chat_message and its handler is through
ChatHandled(h) == conn[h].pc = "done" /\ conn[h].data \in ChatPayloads

\* connection h carried a well-formed friend_request and its handler is through
RequestHandled(h) == conn[h].pc = "done" /\ conn[h].data \in RequestPayloads

\* m is an incoming Message from the sender of data with its content
IsIncomingOf(m, data) ==
    m.from = data.from_user /\ m.content = data.content /\ m.direction = "incoming"

\* C1: when the handler of a well-formed chat_message {from_user: P, content: C}
\* finishes, conversations[P] is what it was when the handler began (nothing, if
\* P had no conversation) with exactly one Message {from: P, content: C,
\* direction: incoming} appended; whether P is a friend plays no part.
C1_ChatAppended ==
    \A h \in Conns :
        ChatHandled(h) =>
            LET P == conn[h].data.from_user
                old == conn[h].prior
            IN  /\ P \in DOMAIN conversations
                /\ Len(conversations[P]) = Len(old) + 1
                /\ SubSeq(conversations[P], 1, Len(old)) = old
                /\ IsIncomingOf(conversations[P][Len(old) + 1], conn[h].data)

\* C1, its case: a chat_message from a user who is no friend has been handled
\* and the conversation held messages before
C1_Witness ==
    \E h \in Conns :
        /\ ChatHandled(h)
        /\ conn[h].prior # << >>
        /\ conn[h].data.from_user \notin DOMAIN friends

\* the handler of h stored its message behind what it had found
KeptMessageOf(h) ==
    LET P == conn[h].data.from_user
    IN  /\ P \in DOMAIN conversations
        /\ \E i \in (Len(conn[h].prior) + 1)..Len(conversations[P]) :
              IsIncomingOf(conversations[P][i], conn[h].data)

\* two chat_message deliveries from distinct users, both handled, with no
\* other writer of the two conversations: the main thread has read no line
\* and no other connection carries a chat_message from either user
TwoDeliveries(h1, h2) ==
    /\ h1 # h2
    /\ ChatHandled(h1) /\ ChatHandled(h2)
    /\ conn[h1].data.from_user # conn[h2].data.from_user
    /\ lines = 0
    /\ \A g \in Conns \ {h1, h2} :
          \/ conn[g].data \notin ChatPayloads
          \/ conn[g].data.from_user \notin
                {conn[h1].data.from_user, conn[h2].data.from_user}

\* C2: when two handle_connection threads handle chat_messages from distinct
\* users P1 and P2, then under every interleaving of their steps, once both
\* are through, conversations[P1] holds P1's message and conversations[P2]
\* holds P2's.
C2_BothKept ==
    \A h1, h2 \in Conns :
        TwoDeliveries(h1, h2) => KeptMessageOf(h1) /\ KeptMessageOf(h2)

\* C2, its case: two such deliveries are through, the second conversation
\* created while the first handler was already at work
C2_Witness ==
    \E h1, h2 \in Conns :
        /\ TwoDeliveries(h1, h2)
        /\ conn[h1].prior = << >> /\ conn[h2].prior = << >>
        /\ KeptMessageOf(h1) /\ KeptMessageOf(h2)

\* C3, as claimed: once a friend_request to B was sent (B is in
\* friend_requests) and the friend_accept from B has been processed, friends
\* holds a FriendRecord for B.  The code only prints a line.
C3_AcceptMakesFriend ==
    \A h \in Conns :
        ( /\ conn[h].pc = "done"
          /\ conn[h].data \in ReplyPayloads
          /\ conn[h].data.type = "friend_accept"
          /\ conn[h].data.from_user \in DOMAIN friend_requests )
        => conn[h].data.from_user \in DOMAIN friends

\* the one reply a friend_request handler sends: of the given type, from the
\* local user, to the endpoint the request claims
OneReply(h, type) ==
    /\ Len(conn[h].sent) = 1
    /\ conn[h].sent[1].ip = conn[h].data.from_ip
    /\ conn[h].sent[1].port = conn[h].data.from_port
    /\ conn[h].sent[1].data = [wire |-> "object", type |-> type, from_user |-> Me]

RequestStep(h) ==
    /\ conn[h].data \in RequestPayloads
    /\ conn[h].pc \in {"recv", "prompt"}
    /\ conn'[h] # conn[h]
    /\ boots' = boots

AddStep == main' # main /\ main'.op = "add_friend" /\ boots' = boots

\* what add_friend does to the state, whatever it hands back: the request
\* went to (ip, port); friends and conversations are never touched; username
\* maps to (ip, port) in friend_requests and the file is written exactly when
\* the send succeeded
AddEffect ==
    LET ok == main'.sent[1].ok
        username == main'.username
    IN  /\ UNCHANGED <<friends, conversations>>
        /\ Len(main'.sent) = 1
        /\ <<main'.sent[1].ip, main'.sent[1].port>> = main'.addr
        /\ main.pc = "prompt" /\ ok =>
              /\ DOMAIN friend_requests' = DOMAIN friend_requests \cup {username}
              /\ friend_requests'[username] = main'.addr
              /\ \A u \in DOMAIN friend_requests \ {username} :
                    friend_requests'[u] = friend_requests[u]
        /\ main.pc # "prompt" \/ ~ok => UNCHANGED friend_requests
        /\ ~ok => main'.pc = "return" /\ UNCHANGED disk
        /\ main'.pc = "return" /\ ok =>
              /\ main'.saved \in {"ok", "failed"}
              /\ main'.saved = "ok" => Reloaded(disk')[3] = friend_requests'

C7_NotFriend ==
    [][( /\ main.pc = "prompt"
         /\ main'.op = "chat_with_friend"
         /\ main'.username \notin DOMAIN friends
         /\ boots' = boots )
       => /\ main'.pc = "return"
          /\ main'.out = <<"not_friend">>
          /\ main'.sent = << >>
          /\ UNCHANGED <<friends, conversations, friend_requests, current_chat,
                         disk>>]_vars

\* C7, its case: 'chat' was asked for a user with a pending request and a
\* conversation but no FriendRecord
C7_Witness ==
    /\ main.pc = "return" /\ main.op = "chat_with_friend"
    /\ main.username \notin DOMAIN friends
    /\ main.username \in DOMAIN friend_requests
    /\ main.username \in DOMAIN conversations

\* the chat line has been sent and stored: conversations[username] is what it
\* was with one outgoing Message of the local user behind it
ChatStored ==
    LET u == main.username
        old == main.prior
    IN  /\ u \in DOMAIN conversations
        /\ Len(conversations[u]) = Len(old) + 1
        /\ SubSeq(conversations[u], 1, Len(old)) = old
        /\ conversations[u][Len(old) + 1].from = Me
        /\ conversations[u][Len(old) + 1].content = main.message
        /\ conversations[u][Len(old) + 1].direction = "outgoing"
        /\ main.saved \in {"ok", "failed"}
        /\ main.saved = "ok" => Reloaded(disk)[2] = conversations

\* C8: a chat line for a friend: when the send succeeds, exactly one Message
\* {from: the local user, content, direction: outgoing} is appended to
\* conversations[username] and save_data runs; when the send fails,
\* conversations is unchanged, friends[username].connected becomes false
\* (nothing else of friends changes) and the failure line is printed.
C8_ChatSend ==
    [][( /\ main.op = "chat_with_friend"
         /\ main.pc \in {"chat", "cs_open", "cs_dump", "cs_close"}
         /\ main'.pc = "chat_return"
         /\ main'.sent # << >> )
       => /\ <<main'.sent[1].ip, main'.sent[1].port>> = main.friend_info
          /\ main'.sent[1].ok => ChatStored' /\ UNCHANGED friends
          /\ ~main'.sent[1].ok =>
                /\ main.pc = "chat"
                /\ UNCHANGED <<conversations, disk>>
                /\ DOMAIN friends' = DOMAIN friends
                /\ friends'[main.username] =
                      [ip |-> friends[main.username].ip,
                       port |-> friends[main.username].port,
                       connected |-> FALSE]
                /\ \A u \in DOMAIN friends \ {main.username} :
                      friends'[u] = friends[u]
                /\ main'.out = <<"failed">>]_vars

\* C8, its case: a line was sent and stored behind older messages of the
\* conversation, and the friend was marked connected
C8_Witness ==
    /\ main.op = "chat_with_friend" /\ main.pc = "chat_return"
    /\ main.sent # << >> /\ main.sent[1].ok
    /\ main.prior # << >>
    /\ main.saved = "ok"
    /\ ChatStored

\* what C9 calls malformed: nothing received, bytes that are no JSON, JSON
\* that is no object, an object of a known type without a field it needs
Malformed == MalformedPayloads \ {[wire |-> "reset"]}

\* C9: a connection that delivers malformed data is closed with nothing done:
\* friends, conversations, friend_requests, current_chat and the file are
\* unchanged, nothing is printed, nothing is sent and the handler ends.
C9_SilentDrop ==
    [][\A h \in Conns :
          ( /\ conn[h].pc = "recv"
            /\ conn[h].data \in Malformed
            /\ conn'[h] # conn[h]
            /\ boots' = boots )
          => /\ conn'[h].pc = "done"
             /\ conn'[h].sent = << >>
             /\ conn'[h].out = << >>
             /\ UNCHANGED <<friends, conversations, friend_requests, current_chat,
                            disk>>]_vars

\* C9, its case: an object without a needed field has been dropped by a node
\* that holds friends
C9_Witness ==
    \E h \in Conns :
        /\ conn[h].pc = "done"
        /\ conn[h].data \in Malformed
        /\ conn[h].data.wire = "object"
        /\ friends # EmptyMap

\* C10: what save_data has written, load_data reads back as the same friends,
\* conversations and friend_requests; with no file, or one that cannot be
\* read, load_data leaves the three maps empty and the program starts.
C10_RoundTrip ==
    [][boots' # boots =>
          /\ main.saved = "ok" =>
                /\ friends' = friends
                /\ conversations' = conversations
                /\ friend_requests' = friend_requests
          /\ disk \in {NoFile, Truncated} =>
                /\ friends' = EmptyMap
                /\ conversations' = EmptyMap
                /\ friend_requests' = EmptyMap
          /\ main'.pc = "prompt"]_vars

\* C10, its case: the program was started again on a file of its own that
\* holds a friend, a conversation and a request the first file did not
C10_Witness ==
    /\ boots = 1
    /\ Loadable(disk)
    /\ disk # SavedFile
    /\ friends # EmptyMap /\ conversations # EmptyMap /\ friend_requests # EmptyMap

\* the call of send_direct_message has come back: with a boolean and no
\* exception; True only after a connect and a write that both succeeded;
\* False after any socket call that failed or timed out
SendReturned ==
    call.pc = "returned" =>
        /\ call.ret \in {"True", "False"}
        /\ ~call.raised
        /\ call.ret = "True" =>
              /\ call.opened = 1
              /\ Len(call.written) = 1
              /\ call.written[1].wire = "object"
              /\ call.written[1].type = call.message.type
              /\ call.waited = 0
        /\ call.opened = 0 \/ call.written = << >> \/ call.waited > 0 =>
              call.ret = "False"

\* C11: send_direct_message always comes back, with a boolean: True only if
\* connect and write both succeeded, False on any connect, timeout or write
\* error; it raises nothing to its caller, waits no longer than its timeout,
\* and writes at most one message on the one connection it opens.
C11_SendReturns ==
    /\ [](/\ SendReturned
          /\ call.opened <= 1
          /\ Len(call.written) <= call.opened
          /\ call.waited <= SendTimeout)
    /\ (call.pc = "socket" ~> call.pc = "returned")

\* C11, its case: a call came back False from a send that timed out on a
\* connection it had opened
C11_Witness ==
    /\ call.pc = "returned"
    /\ call.ret = "False"
    /\ call.opened = 1
    /\ call.written = << >>
    /\ call.waited = SendTimeout

\* the handler of connection h is in the middle of its work: past recv and
\* past the answer it may have waited for, and not yet through
InFlight(h) ==
    conn[h].pc \in {"cm_create", "cm_append", "cm_open", "cm_dump", "cm_close",
                   "cm_notify", "fr_open", "fr_dump", "fr_close", "fr_send"}

\* C12, as claimed for the handlers: shutdown (running set to false, run
\* returning) cancels no handler in flight, so the process is never gone with
\* a handler left in the middle of its work.  The handlers are daemon threads
\* and end with the process wherever they are.
C12_HandlersFinish ==
    main.pc = "exited" => \A h \in Conns : ~InFlight(h)

\* list new begins with list old
Extends(new, old) ==
    /\ Len(new) >= Len(old)
    /\ SubSeq(new, 1, Len(old)) = old

\* C13, as claimed: within one run of the program every step, under every
\* interleaving, leaves each conversations[u] an extension of what it was, so
\* no stored message is lost or replaced - also when two handlers, or a
\* handler and the command loop, store the first messages of a conversation
\* at once.  The test 'not in self.conversations' and the store of the empty
\* list are two steps, and the second can wipe what another thread appended.
C13_AppendOnly ==
    [][boots' = boots =>
          \A u \in DOMAIN conversations :
              /\ u \in DOMAIN conversations'
              /\ Extends(conversations'[u], conversations[u])]_vars

\* no thread is inside an operation
Quiet == ~MainBusy /\ \A h \in Conns : ~HandlerBusy(h)

\* C14, as claimed: every operation that changes friends, conversations or
\* friend_requests saves before it is through, so with no operation in
\* flight and no save failing the file reads back as the three maps in
\* memory - the change of 'connected' after a failed chat send included.
\* That change (line 315) is followed by no save_data.
C14_WriteThrough ==
    Quiet => Reloaded(disk) = <<friends, conversations, friend_requests>>

\* C15, as claimed: two operations that each change a map and then call
\* save_data - here the handlers of two chat_messages from distinct users,
\* with the main thread idle and no other handler at work - leave, under
\* every interleaving of their append, open, pickle.dump and close steps and
\* once both are through, a file that reads back as the maps in memory, with
\* both messages.  A buffer pickled before the other thread's append can
\* reach the file after the other thread's save.
C15_SavesAgree ==
    \A h1, h2 \in Conns :
        ( /\ TwoDeliveries(h1, h2)
          /\ main.pc = "prompt"
          /\ \A g \in Conns \ {h1, h2} : ~HandlerBusy(g) )
        => Reloaded(disk) = <<friends, conversations, friend_requests>>

\* the handlers waiting in input("Accept? (y/n): ")
Deciding == {h \in Conns : conn[h].pc = "prompt"}

\* C16, as claimed: in every reachable state at most one handler waits for
\* the answer to a friend_request, even when several requests arrive on
\* concurrent connections.  Each connection has its own thread and each
\* thread calls input() on its own.
C16_OneDecision == Cardinality(Deciding) <= 1

\* the accept loop is at select and a connection can still be taken
AcceptReady ==
    Alive /\ running /\ lpc = "select" /\ \E h \in Conns : conn[h].pc = "unborn"

\* a connection is read once: after recv its data stays as it is and the
\* thread does not come back to recv
OneRead ==
    \A h \in Conns :
        conn[h].pc \notin {"unborn", "recv"} /\ boots' = boots =>
            /\ conn'[h].data = conn[h].data
            /\ conn'[h].pc \notin {"unborn", "recv"}

\* C17: the accept loop never waits for a handler: with handlers at work,
\* also one blocked in input() for as long as the user likes, the listener
\* can take the next connection, and a chat_message arriving on another
\* connection is handled to its end (appended and saved) while the process
\* lives; a connection is read once and dispatches one message at most.
C17_NeverWaits ==
    /\ [](AcceptReady =>
            ENABLED (\E h \in Conns, data \in FewInputs.payloads :
                        ListenerAccept(h, data)))
    /\ [][OneRead]_vars
    /\ \A h \in Conns :
          (conn[h].pc = "recv" /\ conn[h].data \in ChatPayloads)
              ~> ((conn[h].pc = "done" /\ conn[h].saved = "ok") \/ ~Alive)

\* C17, its case: a chat_message was taken, stored and saved while the
\* handler of an earlier connection was, and still is, waiting for an answer
C17_Witness ==
    \E h1, h2 \in Conns :
        /\ h1 < h2
        /\ conn[h1].pc = "prompt"
        /\ ChatHandled(h2)
        /\ conn[h2].saved = "ok"
        /\ KeptMessageOf(h2)
        /\ Alive

\* this step is add_friend storing the request for u after a send that
\* succeeded
AddStored(u) ==
    /\ main.pc = "prompt"
    /\ main'.op = "add_friend"
    /\ main'.username = u
    /\ main'.sent[1].ok
    /\ friend_requests'[u] = main'.addr

\* C18: within one run of the program a pending request is never consumed:
\* a user once in friend_requests stays in it through every step - also
\* through the handling of that user's friend_accept or friend_reject and
\* through accepting that user's own friend_request - and the stored (ip,
\* port) changes only when add_friend stores a new request for that user.
C18_PendingKept ==
    [][boots' = boots =>
          \A u \in DOMAIN friend_requests :
              /\ u \in DOMAIN friend_requests'
              /\ friend_requests'[u] # friend_requests[u] => AddStored(u)]_vars

\* C18, its case: the friend_request of a user with a pending request has
\* been accepted, and the pending request is still there
C18_Witness ==
    \E h \in Conns :
        /\ RequestHandled(h)
        /\ conn[h].response = "y"
        /\ conn[h].data.from_user \in DOMAIN friends
        /\ conn[h].data.from_user \in DOMAIN friend_requests

\* C19, as claimed: a chat line is sent to the ip and port that friends
\* holds for the user at the moment of the send, also when the record was
\* replaced (a friend_request of the same user accepted) while the chat was
\* open.  chat_with_friend takes friend_info once, before its loop.
C19_CurrentEndpoint ==
    [][( /\ main.pc = "chat"
         /\ main'.sent # << >>
         /\ boots' = boots )
       => <<main'.sent[1].ip, main'.sent[1].port>> =
             <<friends[main.username].ip, friends[main.username].port>>]_vars

\* this step is the handler of h taking the answer 'y' to a friend_request
\* and storing the requester's record
AcceptStored(h) ==
    /\ conn[h].data \in RequestPayloads
    /\ conn[h].pc = "prompt"
    /\ conn'[h].response = "y"
    /\ DOMAIN friends' = DOMAIN friends \cup {conn[h].data.from_user}
    /\ friends'[conn[h].data.from_user] =
          [ip |-> conn[h].data.from_ip, port |-> conn[h].data.from_port,
           connected |-> TRUE]
    /\ \A u \in DOMAIN friends \ {conn[h].data.from_user} : friends'[u] = friends[u]

\* this step is a chat send that failed: the record of the user of the chat
\* loses 'connected' and nothing else
SendFailed ==
    /\ main.pc = "chat"
    /\ main'.sent # << >>
    /\ ~main'.sent[1].ok
    /\ DOMAIN friends' = DOMAIN friends
    /\ \A u \in DOMAIN friends :
          /\ friends'[u].ip = friends[u].ip
          /\ friends'[u].port = friends[u].port
          /\ friends'[u].connected # friends[u].connected =>
                u = main.username /\ friends[u].connected /\ ~friends'[u].connected

\* C20: within one run of the program friends changes in two ways only: the
\* accept branch of a friend_request stores the requester's record (the only
\* way a user is added, an endpoint changes or 'connected' becomes true
\* again), and a failed chat send turns 'connected' of that friend from true
\* to false.  No step removes a friend; handling friend_accept, friend_reject
\* or chat_message, add_friend and a chat send that succeeds leave friends
\* as it is.
C20_FriendsFrame ==
    [][boots' = boots /\ friends' # friends =>
          \/ \E h \in Conns : AcceptStored(h)
          \/ SendFailed]_vars

\* C20, its case: a friend_accept from a user to whom no request was ever
\* sent has been handled and the user is no friend
C20_Witness ==
    \E h \in Conns :
        /\ conn[h].pc = "done"
        /\ conn[h].data \in ReplyPayloads
        /\ conn[h].data.type = "friend_accept"
        /\ conn[h].data.from_user \notin DOMAIN friend_requests
        /\ conn[h].data.from_user \notin DOMAIN friends
        /\ friends # EmptyMap

====
